---- MODULE Spec2Model ----
(***************************************************************************)
(* Heatwave ingest pipeline of NSAC: forecast discovery, the sequential    *)
(* download -> extract -> store -> delete loop, the per-day detection      *)
(* phase and the store it writes to.                                       *)
(*                                                                         *)
(* Time is counted in whole hours; a calendar day has HoursPerDay hours    *)
(* and a forecast covers ForecastDays days.  Temperatures are integers in  *)
(* hundredths of a degree, humidity in whole percent.                      *)
(***************************************************************************)
EXTENDS Integers, Sequences, FiniteSets, Bags, TLC

\* ------------------------------------------------------------------------
\* Bounds of the model
\* ------------------------------------------------------------------------
HoursPerDay == 2
ForecastDays == 1
AvailDaysBack == 0
\* environment faults (failed requests, broken files, store errors) within
\* one behaviour
MaxFaults == 3
\* days back from today for which the remote may hold an initialization,
\* when discovery is applied on its own
ProbeDaysBack == 2
\* days before and after today among which a target date is drawn, when
\* the descriptor list is built on its own
UrlDateSpan == 5

\* ------------------------------------------------------------------------
\* Program constants
\* ------------------------------------------------------------------------
max_days_back == 5
max_retries == 3
sample_rate == 5
SEARCH_DAYS == 30
INIT_DAYS_BACK == 5
MIN_HOURS == 6
RETENTION_DAYS == 5
ALERT_RETENTION_DAYS == 7
TEMPO_LAT_MIN == 25
TEMPO_LAT_MAX == 50
TEMPO_LON_MIN == -125
TEMPO_LON_MAX == -65

\* hour_offset > 120 is skipped: the forecast horizon is the forecast days
MaxHourOffset == ForecastDays * HoursPerDay
\* hours_to_keep = 120, "5 days"
hours_to_keep == RETENTION_DAYS * HoursPerDay

Runs == {1, 2}
\* None, where the code has a date or a time
None == -1
\* not-a-number, a value no field takes
NaN == -99999999
isnan(x) == x = NaN

\* the wall clock: date.today() and datetime.utcnow()
Today == 10
Now == Today * HoursPerDay + (HoursPerDay - 1)

DateOf(t) == t \div HoursPerDay
HourOf(t) == t % HoursPerDay

\* ------------------------------------------------------------------------
\* smart_downloader.py: initialization times and file descriptors
\* ------------------------------------------------------------------------
get_forecast_init_time(days_back, use_12z) ==
    (DateOf(Now) - days_back) * HoursPerDay
        + (IF use_12z THEN HoursPerDay \div 2 ELSE 0)

\* init_str and target_str of the file name, as the date and hour fields
\* that strftime writes
FormatFilename(forecast_init_time, hour_offset) ==
    [initDate |-> DateOf(forecast_init_time),
     initHour |-> HourOf(forecast_init_time),
     targetDate |-> DateOf(forecast_init_time + hour_offset),
     targetHour |-> HourOf(forecast_init_time + hour_offset)]

RECURSIVE HourlyUrlsFrom(_, _, _)
HourlyUrlsFrom(forecast_init_time, base_offset, hour) ==
    IF hour >= HoursPerDay THEN << >>
    ELSE LET hour_offset == base_offset + hour
             rest == HourlyUrlsFrom(forecast_init_time, base_offset, hour + 1)
         IN IF hour_offset < 0 \/ hour_offset > MaxHourOffset
            THEN rest
            ELSE << [filename |-> FormatFilename(forecast_init_time, hour_offset),
                     hour_offset |-> hour_offset] >> \o rest

generate_hourly_file_urls(forecast_init_time, target_date) ==
    HourlyUrlsFrom(forecast_init_time,
                   target_date * HoursPerDay - forecast_init_time, 0)

\* meteorological_processor.py: the two timestamps read back from the name
extract_timestamp_from_filename(filename) ==
    [forecast_init_time |-> filename.initDate * HoursPerDay + filename.initHour,
     data_timestamp |-> filename.targetDate * HoursPerDay + filename.targetHour]

\* all_urls of a run: the forecast days from target_date on
RECURSIVE AllUrlsFrom(_, _, _)
AllUrlsFrom(forecast_time, target_date, day_offset) ==
    IF day_offset >= ForecastDays THEN << >>
    ELSE generate_hourly_file_urls(forecast_time, target_date + day_offset)
         \o AllUrlsFrom(forecast_time, target_date, day_offset + 1)

\* AllUrls starting one day before the target date
AllUrlsDayBefore(forecast_time, target_date) == AllUrlsFrom(forecast_time, target_date, -1)

AllUrls(forecast_time, target_date) == AllUrlsFrom(forecast_time, target_date, 0)

\* ------------------------------------------------------------------------
\* Discovery: candidates in the order the code probes them
\* ------------------------------------------------------------------------
\* the two daily cycles, 12z before 00z
Cycles == << TRUE, FALSE >>

\* the first step of a loop, counted from 0, at which the probe succeeds
FirstHit(steps, Hit(_)) ==
    LET hits == {k \in 0..(steps - 1) : Hit(k)}
    IN IF hits = {} THEN None ELSE CHOOSE k \in hits : \A m \in hits : k <= m

\* explicit target date (main.py 333-341): days_back outer, cycle inner;
\* step k of the loops tries days_back = k \div 2 and cycle k % 2
ExplicitCandidate(k) == get_forecast_init_time(k \div Len(Cycles), Cycles[(k % Len(Cycles)) + 1])

FindForecastFor(target_date, avail) ==
    LET Hit(k) == /\ generate_hourly_file_urls(ExplicitCandidate(k), target_date) # << >>
                  /\ ExplicitCandidate(k) \in avail
        k == FirstHit(max_days_back * Len(Cycles), Hit)
    IN IF k = None THEN None ELSE ExplicitCandidate(k)

\* AutoSearchDate walking the window forward from its oldest date
AutoSearchDateForward(k) ==
    Today - SEARCH_DAYS + 1 + (k \div (Len(Cycles) * INIT_DAYS_BACK))

\* auto-detect (main.py 254-283): search date outer, then the cycle, then
\* init_days_back
AutoSearchDate(k) == Today - (k \div (Len(Cycles) * INIT_DAYS_BACK))
AutoCandidate(k) ==
    get_forecast_init_time(k % INIT_DAYS_BACK,
                           Cycles[((k \div INIT_DAYS_BACK) % Len(Cycles)) + 1])

find_latest_available_forecast(avail) ==
    LET Hit(k) == /\ AutoCandidate(k) \in avail
                  /\ generate_hourly_file_urls(AutoCandidate(k), AutoSearchDate(k)) # << >>
        k == FirstHit(SEARCH_DAYS * Len(Cycles) * INIT_DAYS_BACK, Hit)
    IN IF k = None
       THEN [forecast_time |-> None, target_date |-> None]
       ELSE [forecast_time |-> AutoCandidate(k), target_date |-> AutoSearchDate(k)]

\* ------------------------------------------------------------------------
\* geographic_filters.py
\* ------------------------------------------------------------------------
\* is_in_tempo_coverage with the northern bound one degree off
is_in_tempo_coverage_wide(latitude, longitude) ==
    /\ TEMPO_LAT_MIN <= latitude /\ latitude <= TEMPO_LAT_MAX + 1
    /\ TEMPO_LON_MIN <= longitude /\ longitude <= TEMPO_LON_MAX

is_in_tempo_coverage(latitude, longitude) ==
    /\ TEMPO_LAT_MIN <= latitude /\ latitude <= TEMPO_LAT_MAX
    /\ TEMPO_LON_MIN <= longitude /\ longitude <= TEMPO_LON_MAX

\* ------------------------------------------------------------------------
\* The remote grid files.  Every file has the same axes; a file is of one
\* kind: "ok" (all variables, numbers in the sampled cells), "empty" (all
\* variables, a not-a-number field in every sampled cell) or "novar" (the
\* PS variable is absent).
\* ------------------------------------------------------------------------
Kinds == {"ok", "empty", "novar"}
BadOffsets == {0}

LatAxis == << 25, 30, 35, 40, 45, 51 >>
LonAxis == << -126, -124, -123, -122, -121, -125, -100, -90, -80, -70, -65 >>

Variables(kind) ==
    IF kind = "novar" THEN {"lev", "lat", "lon", "T2M", "RH", "U2M", "V2M"}
    ELSE {"lev", "lat", "lon", "T2M", "RH", "U2M", "V2M", "PS"}

\* value of a field at grid cell (i, j), indices counted from 0 as in the code
Field(kind, var, i, j) ==
    LET east == LonAxis[j + 1] > -100
    IN CASE var = "T2M" -> IF east THEN 30815 ELSE 30315
         [] var = "RH"  -> IF east THEN 50 ELSE 20
         [] var = "U2M" -> IF kind = "empty" /\ east THEN NaN ELSE 3
         [] var = "V2M" -> 4
         [] var = "PS"  -> IF kind = "empty" /\ ~east THEN NaN ELSE 101325

\* floor of the square root
RECURSIVE SqrtFrom(_, _)
SqrtFrom(n, k) == IF (k + 1) * (k + 1) > n THEN k ELSE SqrtFrom(n, k + 1)

\* np.sqrt(u**2 + v**2); a not-a-number component gives not-a-number
WindSpeed(u_wind, v_wind) ==
    IF isnan(u_wind) \/ isnan(v_wind) THEN NaN
    ELSE SqrtFrom(u_wind * u_wind + v_wind * v_wind, 0)

\* calculate_heat_index with the cut at 79 F
calculate_heat_index_79(temp_c, humidity) ==
    LET temp_f == (temp_c * 9) \div 5 + 3200
        sq == (temp_f * temp_f) \div 1000
        hi_f == -4238
                + (temp_f * 20490) \div 10000
                + (1014333 * humidity) \div 1000
                - (((temp_f * 22476) \div 1000) * humidity) \div 100
                - (sq * 6838) \div 100000
                - (54817 * humidity * humidity) \div 10000
                + (((sq * 12287) \div 10000) * humidity) \div 100
                + (((temp_f * 85282) \div 10000) * humidity * humidity) \div 10000
                - (((sq * 199) \div 1000) * humidity * humidity) \div 10000
    IN IF temp_f < 7900 THEN temp_c
       ELSE ((hi_f - 3200) * 5) \div 9

\* ------------------------------------------------------------------------
\* Heat index (Rothfusz), in hundredths of a degree.  Each product is
\* scaled down in steps so that it stays within 32 bits.
\* ------------------------------------------------------------------------
calculate_heat_index(temp_c, humidity) ==
    LET temp_f == (temp_c * 9) \div 5 + 3200
        sq == (temp_f * temp_f) \div 1000
        hi_f == -4238
                + (temp_f * 20490) \div 10000
                + (1014333 * humidity) \div 1000
                - (((temp_f * 22476) \div 1000) * humidity) \div 100
                - (sq * 6838) \div 100000
                - (54817 * humidity * humidity) \div 10000
                + (((sq * 12287) \div 10000) * humidity) \div 100
                + (((temp_f * 85282) \div 10000) * humidity * humidity) \div 10000
                - (((sq * 199) \div 1000) * humidity * humidity) \div 10000
    IN IF temp_f < 8000 THEN temp_c
       ELSE ((hi_f - 3200) * 5) \div 9

\* ------------------------------------------------------------------------
\* meteorological_processor.py: process_hourly_file, the grid loop
\* ------------------------------------------------------------------------
\* range(0, n, sample_rate), as a sequence
RECURSIVE StrideFrom(_, _)
StrideFrom(k, n) == IF k >= n THEN << >> ELSE << k >> \o StrideFrom(k + sample_rate, n)

CellPoint(kind, forecast_init_time, data_timestamp, i, j) ==
    LET latitude == LatAxis[i + 1]
        longitude == LonAxis[j + 1]
        temp_kelvin == Field(kind, "T2M", i, j)
        temperature == IF isnan(temp_kelvin) THEN NaN ELSE temp_kelvin - 27315
        rel_humidity == Field(kind, "RH", i, j)
        wind_speed == WindSpeed(Field(kind, "U2M", i, j), Field(kind, "V2M", i, j))
        pressure == Field(kind, "PS", i, j)
    IN IF ~is_in_tempo_coverage(latitude, longitude) THEN << >>
       ELSE IF isnan(temperature) \/ isnan(rel_humidity)
               \/ isnan(wind_speed) \/ isnan(pressure) THEN << >>
       ELSE << [timestamp |-> data_timestamp,
                forecast_init_time |-> forecast_init_time,
                latitude |-> latitude,
                longitude |-> longitude,
                temperature |-> temperature,
                humidity |-> rel_humidity,
                wind_speed |-> wind_speed,
                pressure |-> pressure,
                heat_index |-> calculate_heat_index(temperature, rel_humidity)] >>

RECURSIVE GridRow(_, _, _, _, _)
GridRow(kind, forecast_init_time, data_timestamp, i, js) ==
    IF js = << >> THEN << >>
    ELSE CellPoint(kind, forecast_init_time, data_timestamp, i, Head(js))
         \o GridRow(kind, forecast_init_time, data_timestamp, i, Tail(js))

RECURSIVE GridRows(_, _, _, _)
GridRows(kind, forecast_init_time, data_timestamp, is) ==
    IF is = << >> THEN << >>
    ELSE GridRow(kind, forecast_init_time, data_timestamp, Head(is),
                 StrideFrom(0, Len(LonAxis)))
         \o GridRows(kind, forecast_init_time, data_timestamp, Tail(is))

\* the observations of a readable file of the given kind; the caller has
\* checked that the file exists, opens and holds every variable
process_hourly_file(filename, kind) ==
    LET ts == extract_timestamp_from_filename(filename)
    IN GridRows(kind, ts.forecast_init_time, ts.data_timestamp,
                StrideFrom(0, Len(LatAxis)))

\* main.py 392-404: HourlyMetData -> MeteorologicalData
ToMetData(data) ==
    [latitude |-> data.latitude,
     longitude |-> data.longitude,
     forecast_hour |-> data.timestamp,
     forecast_init_time |-> data.forecast_init_time,
     temperature |-> data.temperature,
     humidity |-> data.humidity,
     wind_speed |-> data.wind_speed,
     pressure |-> data.pressure]

\* ------------------------------------------------------------------------
\* database.py: the two tables, as bags of rows
\* ------------------------------------------------------------------------
MetKey(row) == << row.latitude, row.longitude, row.forecast_hour, row.forecast_init_time >>
AlertKey(row) == << row.latitude, row.longitude, row.alert_date, row.forecast_init_time >>

\* InsertMetRow as a plain INSERT
InsertMetRowPlain(table, row) == table (+) SetToBag({row})

\* INSERT ... ON CONFLICT (latitude, longitude, "forecastHour", "forecastInitTime") DO NOTHING
InsertMetRow(table, row) ==
    IF \E old \in BagToSet(table) : MetKey(old) = MetKey(row)
    THEN table
    ELSE table (+) SetToBag({row})

\* InsertAlertRow as a plain INSERT
InsertAlertRowPlain(table, row) == table (+) SetToBag({row})

\* INSERT ... ON CONFLICT (latitude, longitude, "alertDate", "forecastInitTime") DO NOTHING
InsertAlertRow(table, row) ==
    IF \E old \in BagToSet(table) : AlertKey(old) = AlertKey(row)
    THEN table
    ELSE table (+) SetToBag({row})

\* database.py 96-100: the coverage filter of insert_meteorological_data
RECURSIVE MetBatch(_)
MetBatch(met_data) ==
    IF met_data = << >> THEN << >>
    ELSE LET data == Head(met_data)
         IN IF ~(25 <= data.latitude /\ data.latitude <= 50
                 /\ -125 <= data.longitude /\ data.longitude <= -65)
            THEN MetBatch(Tail(met_data))
            ELSE << data >> \o MetBatch(Tail(met_data))

\* database.py 159-180: the coverage and level filter of insert_heatwave_alerts
RECURSIVE AlertBatch(_)
AlertBatch(alerts) ==
    IF alerts = << >> THEN << >>
    ELSE LET alert == Head(alerts)
         IN IF ~(25 <= alert.latitude /\ alert.latitude <= 50
                 /\ -125 <= alert.longitude /\ alert.longitude <= -65)
            THEN AlertBatch(Tail(alerts))
            ELSE IF alert.alert_level > 0
            THEN << alert >> \o AlertBatch(Tail(alerts))
            ELSE AlertBatch(Tail(alerts))

\* cleanup_old_data: the rows that survive the two delete_many calls
CleanMet(table) ==
    LET keep == {row \in BagToSet(table) : ~(row.forecast_hour < Now - hours_to_keep)}
    IN [row \in keep |-> table[row]]

CleanAlerts(table) ==
    LET keep == {row \in BagToSet(table) :
                    ~(row.alert_date < DateOf(Now) - ALERT_RETENTION_DAYS)}
    IN [row \in keep |-> table[row]]

RECURSIVE MapMetData(_)
MapMetData(hourly) ==
    IF hourly = << >> THEN << >>
    ELSE << ToMetData(Head(hourly)) >> \o MapMetData(Tail(hourly))

\* ------------------------------------------------------------------------
\* heatwave_calculator.py
\* ------------------------------------------------------------------------
regional_thresholds ==
    [default   |-> [watch |-> 3200, warning |-> 3800, emergency |-> 4300],
     southwest |-> [watch |-> 3800, warning |-> 4300, emergency |-> 4800],
     southeast |-> [watch |-> 3200, warning |-> 3700, emergency |-> 4200],
     northwest |-> [watch |-> 2800, warning |-> 3300, emergency |-> 3800]]

get_regional_thresholds(latitude, longitude) ==
    IF latitude < 35 /\ longitude < -100 THEN regional_thresholds.southwest
    ELSE IF latitude < 35 /\ longitude > -90 THEN regional_thresholds.southeast
    ELSE IF latitude > 45 THEN regional_thresholds.northwest
    ELSE regional_thresholds.default

SetMax(S) == CHOOSE x \in S : \A y \in S : y <= x
SetMin(S) == CHOOSE x \in S : \A y \in S : x <= y

BagSize(table, rows) == BagCardinality([row \in rows |-> table[row]])

AlertMessage(alert_level) ==
    CASE alert_level = 3 -> "EMERGENCY: Extreme heat danger - seek immediate shelter"
      [] alert_level = 2 -> "WARNING: Dangerous heat conditions - avoid outdoor activities"
      [] alert_level = 1 -> "WATCH: Hot conditions - limit outdoor exposure"
      [] OTHER -> "No heat risk"

BaseLevel(max_heat_index, thresholds) ==
    IF max_heat_index >= thresholds.emergency THEN 3
    ELSE IF max_heat_index >= thresholds.warning THEN 2
    ELSE IF max_heat_index >= thresholds.watch THEN 1
    ELSE 0

\* analyze_location_heatwave with the gate at 6 records or fewer
analyze_location_heatwave_gate(table, rows) ==
    IF rows = {} \/ BagSize(table, rows) <= MIN_HOURS THEN << >>
    ELSE LET first_record == CHOOSE x \in rows : TRUE
             thresholds == get_regional_thresholds(first_record.latitude,
                                                   first_record.longitude)
             temperatures == {x.temperature : x \in rows}
             heat_indices == {calculate_heat_index(x.temperature, x.humidity) : x \in rows}
             max_heat_index == SetMax(heat_indices)
             alert_level == BaseLevel(max_heat_index, thresholds)
         IN << [latitude |-> first_record.latitude,
                longitude |-> first_record.longitude,
                max_temp |-> SetMax(temperatures),
                min_temp |-> SetMin(temperatures),
                max_heat_index |-> max_heat_index,
                alert_level |-> alert_level,
                alert_message |-> AlertMessage(alert_level)] >>

\* analyze_location_heatwave on the records of one location: the fields
\* an alert is built from; no analysis when there are fewer than 6 records
analyze_location_heatwave(table, rows) ==
    IF rows = {} \/ BagSize(table, rows) < MIN_HOURS THEN << >>
    ELSE LET first_record == CHOOSE x \in rows : TRUE
             thresholds == get_regional_thresholds(first_record.latitude,
                                                   first_record.longitude)
             temperatures == {x.temperature : x \in rows}
             heat_indices == {calculate_heat_index(x.temperature, x.humidity) : x \in rows}
             max_heat_index == SetMax(heat_indices)
             alert_level == BaseLevel(max_heat_index, thresholds)
         IN << [latitude |-> first_record.latitude,
                longitude |-> first_record.longitude,
                max_temp |-> SetMax(temperatures),
                min_temp |-> SetMin(temperatures),
                max_heat_index |-> max_heat_index,
                alert_level |-> alert_level,
                alert_message |-> AlertMessage(alert_level)] >>

\* ORDER BY latitude, longitude
LocBefore(a, b) == a[1] < b[1] \/ (a[1] = b[1] /\ a[2] <= b[2])

SortLocs(locs) ==
    CHOOSE s \in [1..Cardinality(locs) -> locs] :
        /\ \A a \in locs : \E k \in 1..Cardinality(locs) : s[k] = a
        /\ \A k \in 1..(Cardinality(locs) - 1) : LocBefore(s[k], s[k + 1])

RECURSIVE AlertsFor(_, _, _, _, _)
\* AlertsFor keeping every analysis, whatever its level
AlertsForAnyLevel(table, met_data, locs, target_date, forecast_init_time) ==
    IF locs = << >> THEN << >>
    ELSE LET loc == Head(locs)
             hourly_records == {x \in met_data :
                                  x.latitude = loc[1] /\ x.longitude = loc[2]}
             found == analyze_location_heatwave(table, hourly_records)
             analysis == found[1]
             rest == AlertsFor(table, met_data, Tail(locs), target_date, forecast_init_time)
         IN IF found # << >>
            THEN << [latitude |-> loc[1],
                     longitude |-> loc[2],
                     alert_date |-> target_date,
                     forecast_init_time |-> forecast_init_time,
                     max_temperature |-> analysis.max_temp,
                     min_temperature |-> analysis.min_temp,
                     max_heat_index |-> analysis.max_heat_index,
                     alert_level |-> analysis.alert_level,
                     alert_message |-> analysis.alert_message] >> \o rest
            ELSE rest

AlertsFor(table, met_data, locs, target_date, forecast_init_time) ==
    IF locs = << >> THEN << >>
    ELSE LET loc == Head(locs)
             hourly_records == {x \in met_data :
                                  x.latitude = loc[1] /\ x.longitude = loc[2]}
             found == analyze_location_heatwave(table, hourly_records)
             analysis == found[1]
             rest == AlertsFor(table, met_data, Tail(locs), target_date, forecast_init_time)
         IN IF found # << >> /\ analysis.alert_level > 0
            THEN << [latitude |-> loc[1],
                     longitude |-> loc[2],
                     alert_date |-> target_date,
                     forecast_init_time |-> forecast_init_time,
                     max_temperature |-> analysis.max_temp,
                     min_temperature |-> analysis.min_temp,
                     max_heat_index |-> analysis.max_heat_index,
                     alert_level |-> analysis.alert_level,
                     alert_message |-> analysis.alert_message] >> \o rest
            ELSE rest

\* the alerts of one day, from the rows whose forecastHour falls on it
process_daily_heatwave_detection(table, target_date, forecast_init_time) ==
    LET met_data == {x \in BagToSet(table) : DateOf(x.forecast_hour) = target_date}
        locs == SortLocs({<< x.latitude, x.longitude >> : x \in met_data})
    IN AlertsFor(table, met_data, locs, target_date, forecast_init_time)

\* ------------------------------------------------------------------------
\* State
\* ------------------------------------------------------------------------
VARIABLES
    run,                  \* the local state of each invocation of the orchestrator
    disk,                 \* the files in the download directory
    meteorological_data,  \* table of hourly observations
    heatwave_alerts,      \* table of daily alerts
    remote,               \* kind of the remote file at each hour offset
    faults,               \* environment faults still to come
    calc                  \* a function of the program, its arguments and its result

vars == << run, disk, meteorological_data, heatwave_alerts, remote, faults, calc >>

\* no function has been applied
NoCalc == [op |-> "none"]

\* initializations the remote may hold
AvailInits == {get_forecast_init_time(d, c) : d \in 0..AvailDaysBack, c \in BOOLEAN}
TargetDates == {None, Today}

SeqToSet(s) == {s[k] : k \in 1..Len(s)}

\* rows stored by the runs of earlier days: today's hours under two older
\* initializations
SeedInits == {get_forecast_init_time(1, FALSE), get_forecast_init_time(1, TRUE),
              get_forecast_init_time(0, TRUE)}
SeedRows ==
    {ToMetData(p) : p \in
        UNION {SeqToSet(process_hourly_file(u.filename, "ok")) : u \in
            UNION {SeqToSet(generate_hourly_file_urls(i, Today)) : i \in SeedInits}}}

InitRun ==
    [pc |-> "idle",
     target_date |-> None,
     forecast_time |-> None,
     all_urls |-> << >>,
     i |-> 0,
     attempt |-> 0,
     hourly_data |-> << >>,
     all_hourly_data |-> << >>,
     met_pos |-> 0,
     files_processed |-> 0,
     files_failed |-> 0,
     inserted |-> 0,
     processed_dates |-> << >>,
     day |-> 0,
     day_alerts |-> << >>,
     alert_pos |-> 0,
     total_heatwave_alerts |-> 0,
     success |-> "none",
     message |-> "",
     exit_code |-> None]

Remotes == {[o \in 0..MaxHourOffset |-> IF o = b THEN k ELSE "ok"] :
               b \in BadOffsets \cup {None}, k \in Kinds}

\* one invocation of the orchestrator
Init ==
    /\ run = [r \in Runs |-> InitRun]
    /\ disk = {}
    /\ meteorological_data \in {EmptyBag, SetToBag(SeedRows)}
    /\ heatwave_alerts = EmptyBag
    /\ remote \in Remotes
    /\ faults = MaxFaults
    /\ calc = NoCalc

\* two invocations of the orchestrator, one after the other, in an
\* environment whose only fault is the interruption of a run
InitSeq ==
    /\ run = [r \in Runs |-> InitRun]
    /\ disk = {}
    /\ meteorological_data \in {EmptyBag, SetToBag(SeedRows)}
    /\ heatwave_alerts = EmptyBag
    /\ remote \in Remotes
    /\ faults = 0
    /\ calc = NoCalc

\* two overlapping invocations of the orchestrator, in an environment
\* without faults, on a store that holds the rows of earlier days
InitTwo ==
    /\ run = [r \in Runs |-> InitRun]
    /\ disk = {}
    /\ meteorological_data = SetToBag(SeedRows)
    /\ heatwave_alerts = EmptyBag
    /\ remote \in Remotes
    /\ faults = 0
    /\ calc = NoCalc

\* ------------------------------------------------------------------------
\* Helpers on the local state
\* ------------------------------------------------------------------------
\* a step of invocation r: its local state changes, no function is applied
\* on its own
Set(r, rec) == run' = [run EXCEPT ![r] = rec] /\ UNCHANGED calc

\* the descriptor being processed
Cur(r) == run[r].all_urls[run[r].i]

Exists(d, filename) == \E f \in d : f.name = filename
FileAt(d, filename) == CHOOSE f \in d : f.name = filename
Unlink(d, filename) == {f \in d : f.name # filename}
WriteFile(d, filename, valid, big) ==
    Unlink(d, filename) \cup {[name |-> filename, valid |-> valid, big |-> big]}

KindOf(filename) ==
    LET ts == extract_timestamp_from_filename(filename)
    IN remote[ts.data_timestamp - ts.forecast_init_time]

\* Advance leaving the loop after the first descriptor
AdvanceFirstOnly(rec) ==
    IF rec.i >= 1
    THEN [rec EXCEPT !.pc = "summary"]
    ELSE [rec EXCEPT !.pc = "fetch_check", !.i = rec.i + 1, !.attempt = 0]

\* the loop moves on to the next descriptor, or ends
Advance(rec) ==
    IF rec.i >= Len(rec.all_urls)
    THEN [rec EXCEPT !.pc = "summary"]
    ELSE [rec EXCEPT !.pc = "fetch_check", !.i = rec.i + 1, !.attempt = 0]

\* FileFailed without the count
FileFailedUncounted(rec) == Advance(rec)

\* main.py 379-382 and 424-427: the descriptor is counted as failed
FileFailed(rec) == Advance([rec EXCEPT !.files_failed = rec.files_failed + 1])

\* Fail with the exit code of a success
FailExitZero(rec, message) ==
    [rec EXCEPT !.pc = "done", !.success = "false", !.message = message, !.exit_code = 0]

\* main.py 515-519 and the early returns: the run ends without success
Fail(rec, message) ==
    [rec EXCEPT !.pc = "done", !.success = "false", !.message = message, !.exit_code = 1]

\* an outcome that is an environment fault uses up one of the faults
Env(fault) == IF fault THEN faults > 0 /\ faults' = faults - 1 ELSE UNCHANGED faults

\* ------------------------------------------------------------------------
\* main(): the command line, and run_sequential_pipeline up to the loop
\* ------------------------------------------------------------------------
\* main.py 542-557.  The second invocation starts at any time after the first.
Start(r) ==
    /\ run[r].pc = "idle"
    /\ r = 1 \/ run[1].pc # "idle"
    /\ \E arg \in TargetDates, well_formed \in BOOLEAN :
         IF ~well_formed
         THEN /\ arg # None
              /\ Set(r, [run[r] EXCEPT !.pc = "done", !.exit_code = 1])
         ELSE Set(r, [run[r] EXCEPT !.pc = "db_test", !.target_date = arg])
    /\ UNCHANGED << disk, meteorological_data, heatwave_alerts, remote, faults >>

\* main.py 306-317: the connectivity test
DbTest(r) ==
    /\ run[r].pc = "db_test"
    /\ \E connected \in BOOLEAN :
         /\ Env(~connected)
         /\ IF connected
            THEN Set(r, [run[r] EXCEPT !.pc = "discover"])
            ELSE Set(r, Fail(run[r], "Database connection failed"))
    /\ UNCHANGED << disk, meteorological_data, heatwave_alerts, remote >>

\* main.py 320-366: discovery, the descriptor list and the counters.
\* avail: the initializations whose first-hour probe answers 200.
Discover(r) ==
    /\ run[r].pc = "discover"
    /\ \E avail \in SUBSET AvailInits :
         LET auto == find_latest_available_forecast(avail)
             forecast_time == IF run[r].target_date = None
                              THEN auto.forecast_time
                              ELSE FindForecastFor(run[r].target_date, avail)
             target_date == IF run[r].target_date = None
                            THEN auto.target_date
                            ELSE run[r].target_date
         IN IF forecast_time = None
            THEN Set(r, Fail(run[r], "No available forecast"))
            ELSE Set(r, Advance([run[r] EXCEPT
                                   !.forecast_time = forecast_time,
                                   !.target_date = target_date,
                                   !.all_urls = AllUrls(forecast_time, target_date),
                                   !.i = 0,
                                   !.all_hourly_data = << >>,
                                   !.files_processed = 0,
                                   !.files_failed = 0,
                                   !.inserted = 0]))
    /\ UNCHANGED << disk, meteorological_data, heatwave_alerts, remote, faults >>

\* ------------------------------------------------------------------------
\* smart_downloader.py: download_single_file
\* ------------------------------------------------------------------------
\* FetchCheck taking any file that exists
FetchCheckTrusting(r) ==
    /\ run[r].pc = "fetch_check"
    /\ LET filename == Cur(r).filename
       IN IF Exists(disk, filename)
          THEN Set(r, [run[r] EXCEPT !.pc = "extract"])
          ELSE Set(r, [run[r] EXCEPT !.pc = "fetch_get"])
    /\ UNCHANGED << disk, meteorological_data, heatwave_alerts, remote, faults >>

\* 137-152: a file already at the path
FetchCheck(r) ==
    /\ run[r].pc = "fetch_check"
    /\ LET filename == Cur(r).filename
       IN IF Exists(disk, filename)
          THEN LET f == FileAt(disk, filename)
               IN IF f.big /\ f.valid
                  THEN /\ Set(r, [run[r] EXCEPT !.pc = "extract"])
                       /\ UNCHANGED disk
                  ELSE /\ disk' = Unlink(disk, filename)
                       /\ Set(r, [run[r] EXCEPT !.pc = "fetch_get"])
          ELSE /\ Set(r, [run[r] EXCEPT !.pc = "fetch_get"])
               /\ UNCHANGED disk
    /\ UNCHANGED << meteorological_data, heatwave_alerts, remote, faults >>

\* 219-222: the cleanup of the finally clause
Finally(d, filename) ==
    IF Exists(d, filename) /\ ~FileAt(d, filename).big
    THEN Unlink(d, filename)
    ELSE d

\* AttemptFailed with one attempt more
AttemptFailedFour(rec) ==
    IF rec.attempt + 1 <= max_retries
    THEN [rec EXCEPT !.pc = "fetch_get", !.attempt = rec.attempt + 1]
    ELSE FileFailed([rec EXCEPT !.attempt = rec.attempt + 1])

\* the attempt has failed: the loop goes on, or the function returns False
AttemptFailed(rec) ==
    IF rec.attempt + 1 < max_retries
    THEN [rec EXCEPT !.pc = "fetch_get", !.attempt = rec.attempt + 1]
    ELSE FileFailed([rec EXCEPT !.attempt = rec.attempt + 1])

\* 163-197 and 211-222: one request, streamed to the file.  The request
\* fails before the file is opened ("error"), the transfer breaks
\* ("partial"), or the transfer completes ("complete") with a file that is
\* structurally valid or not, and above the size floor or not.
FetchGet(r) ==
    /\ run[r].pc = "fetch_get"
    /\ LET filename == Cur(r).filename
       IN \E outcome \in {"error", "partial", "complete"}, valid, big \in BOOLEAN :
            /\ Env(~(outcome = "complete" /\ valid /\ big))
            /\ CASE outcome = "error" ->
                      /\ valid /\ big
                      /\ disk' = Finally(disk, filename)
                      /\ Set(r, AttemptFailed(run[r]))
                 [] outcome = "partial" ->
                      /\ valid
                      /\ disk' = Finally(WriteFile(disk, filename, FALSE, big), filename)
                      /\ Set(r, AttemptFailed(run[r]))
                 [] outcome = "complete" ->
                      /\ disk' = WriteFile(disk, filename, valid, big)
                      /\ Set(r, [run[r] EXCEPT !.pc = "fetch_validate"])
    /\ UNCHANGED << meteorological_data, heatwave_alerts, remote >>

\* 199-209 and 219-222: validation of the downloaded file
FetchValidate(r) ==
    /\ run[r].pc = "fetch_validate"
    /\ LET filename == Cur(r).filename
       IN IF Exists(disk, filename) /\ FileAt(disk, filename).valid
          THEN \* return True, then the finally clause
               /\ disk' = Finally(disk, filename)
               /\ Set(r, [run[r] EXCEPT !.pc = "extract"])
          ELSE IF ~Exists(disk, filename)
          THEN \* unlink raises FileNotFoundError, which leaves the function
               /\ UNCHANGED disk
               /\ Set(r, FileFailed(run[r]))
          ELSE /\ disk' = Unlink(disk, filename)
               /\ Set(r, AttemptFailed(run[r]))
    /\ UNCHANGED << meteorological_data, heatwave_alerts, remote, faults >>

\* Extract reading a file whatever variables it holds
ExtractAnyVariables(r) ==
    /\ run[r].pc = "extract"
    /\ LET filename == Cur(r).filename
       IN IF ~Exists(disk, filename) \/ ~FileAt(disk, filename).valid
          THEN Set(r, FileFailed(run[r]))
          ELSE LET hourly_data == process_hourly_file(filename, KindOf(filename))
               IN IF hourly_data # << >>
                  THEN Set(r, [run[r] EXCEPT !.pc = "store",
                                              !.hourly_data = hourly_data,
                                              !.met_pos = 1])
                  ELSE Set(r, [run[r] EXCEPT !.pc = "delete",
                                              !.hourly_data = hourly_data,
                                              !.files_failed = run[r].files_failed + 1])
    /\ UNCHANGED << disk, meteorological_data, heatwave_alerts, remote, faults >>

\* ------------------------------------------------------------------------
\* run_sequential_pipeline: the rest of the loop body
\* ------------------------------------------------------------------------
\* main.py 386-390, 413-415: process_hourly_file.  A missing file, a file
\* that does not open and a missing variable raise.
Extract(r) ==
    /\ run[r].pc = "extract"
    /\ LET filename == Cur(r).filename
       IN IF ~Exists(disk, filename) \/ ~FileAt(disk, filename).valid
             \/ "PS" \notin Variables(KindOf(filename))
          THEN Set(r, FileFailed(run[r]))
          ELSE LET hourly_data == process_hourly_file(filename, KindOf(filename))
               IN IF hourly_data # << >>
                  THEN Set(r, [run[r] EXCEPT !.pc = "store",
                                              !.hourly_data = hourly_data,
                                              !.met_pos = 1])
                  ELSE Set(r, [run[r] EXCEPT !.pc = "delete",
                                              !.hourly_data = hourly_data,
                                              !.files_failed = run[r].files_failed + 1])
    /\ UNCHANGED << disk, meteorological_data, heatwave_alerts, remote, faults >>

\* FileProcessed without the delete step: the loop goes straight on
FileProcessedNoDelete(rec, inserted_count) ==
    Advance([rec EXCEPT !.inserted = rec.inserted + inserted_count,
                        !.all_hourly_data = rec.all_hourly_data \o rec.hourly_data,
                        !.files_processed = rec.files_processed + 1])

\* main.py 408-412: result['inserted'] is reported (here summed over the
\* files), and the file counts as processed
FileProcessed(rec, inserted_count) ==
    [rec EXCEPT !.pc = "delete",
                !.inserted = rec.inserted + inserted_count,
                !.all_hourly_data = rec.all_hourly_data \o rec.hourly_data,
                !.files_processed = rec.files_processed + 1]

\* StoreConnectError with the exception leaving the loop
StoreConnectErrorFatal(r) ==
    /\ run[r].pc = "store"
    /\ run[r].met_pos = 1
    /\ Env(TRUE)
    /\ Set(r, Fail(run[r], "store failed"))
    /\ UNCHANGED << disk, meteorological_data, heatwave_alerts, remote >>

\* main.py 407: the connection of the store write fails
StoreConnectError(r) ==
    /\ run[r].pc = "store"
    /\ run[r].met_pos = 1
    /\ Env(TRUE)
    /\ Set(r, FileFailed(run[r]))
    /\ UNCHANGED << disk, meteorological_data, heatwave_alerts, remote >>

\* database.py 116-136: one INSERT of the batch
StoreRow(r) ==
    /\ run[r].pc = "store"
    /\ LET batch_data == MetBatch(MapMetData(run[r].hourly_data))
       IN IF run[r].met_pos > Len(batch_data)
          THEN /\ UNCHANGED meteorological_data
               /\ Set(r, FileProcessed(run[r], 0))
          ELSE /\ meteorological_data' =
                     InsertMetRow(meteorological_data, batch_data[run[r].met_pos])
               /\ IF run[r].met_pos = Len(batch_data)
                  THEN Set(r, FileProcessed(run[r], Len(batch_data)))
                  ELSE Set(r, [run[r] EXCEPT !.met_pos = run[r].met_pos + 1])
    /\ UNCHANGED << disk, heatwave_alerts, remote, faults >>

\* database.py 137-139: an INSERT raises; the rows written so far stay
StoreError(r) ==
    /\ run[r].pc = "store"
    /\ run[r].met_pos <= Len(MetBatch(MapMetData(run[r].hourly_data)))
    /\ Env(TRUE)
    /\ Set(r, FileProcessed(run[r], 0))
    /\ UNCHANGED << disk, meteorological_data, heatwave_alerts, remote >>

\* main.py 417-422: os.remove, failures only logged
Delete(r) ==
    /\ run[r].pc = "delete"
    /\ \E removed \in BOOLEAN :
         /\ Env(~removed)
         /\ disk' = IF removed THEN Unlink(disk, Cur(r).filename) ELSE disk
    /\ Set(r, Advance(run[r]))
    /\ UNCHANGED << meteorological_data, heatwave_alerts, remote >>

\* ------------------------------------------------------------------------
\* run_sequential_pipeline: after the loop
\* ------------------------------------------------------------------------
RECURSIVE SortDates(_)
SortDates(dates) ==
    IF dates = {} THEN << >>
    ELSE << SetMin(dates) >> \o SortDates(dates \ {SetMin(dates)})

\* a run ends with success (main.py 502-513)
Succeed(rec) == [rec EXCEPT !.pc = "done", !.success = "true", !.exit_code = 0]

\* NextDay starting the detection loop over
NextDayRestart(rec) ==
    IF Len(rec.processed_dates) = 0
    THEN [rec EXCEPT !.pc = "cleanup"]
    ELSE [rec EXCEPT !.pc = "detect", !.day = 1]

\* the detection loop moves on to the next date, or to the cleanup
NextDay(rec) ==
    IF rec.day >= Len(rec.processed_dates)
    THEN [rec EXCEPT !.pc = "cleanup"]
    ELSE [rec EXCEPT !.pc = "detect", !.day = rec.day + 1]

\* main.py 429-451
Summary(r) ==
    /\ run[r].pc = "summary"
    /\ IF run[r].all_hourly_data = << >>
       THEN Set(r, Fail(run[r], "No meteorological data extracted"))
       ELSE Set(r, NextDay([run[r] EXCEPT
                              !.processed_dates =
                                  SortDates({DateOf(d.timestamp) :
                                               d \in SeqToSet(run[r].all_hourly_data)}),
                              !.day = 0,
                              !.total_heatwave_alerts = 0]))
    /\ UNCHANGED << disk, meteorological_data, heatwave_alerts, remote, faults >>

\* main.py 454-462 and 478-479: the detection of one date; a failed
\* connection or query raises out of the pipeline
DetectDay(r) ==
    /\ run[r].pc = "detect"
    /\ \E connected \in BOOLEAN :
         /\ Env(~connected)
         /\ IF ~connected
            THEN Set(r, Fail(run[r], "detection failed"))
            ELSE LET day_alerts ==
                         process_daily_heatwave_detection(meteorological_data,
                             run[r].processed_dates[run[r].day], run[r].forecast_time)
                 IN IF day_alerts # << >>
                    THEN Set(r, [run[r] EXCEPT !.pc = "alert_store",
                                                !.day_alerts = day_alerts,
                                                !.alert_pos = 1])
                    ELSE Set(r, NextDay([run[r] EXCEPT !.day_alerts = day_alerts]))
    /\ UNCHANGED << disk, meteorological_data, heatwave_alerts, remote >>

\* main.py 464: the connection of the alert write fails
AlertConnectError(r) ==
    /\ run[r].pc = "alert_store"
    /\ run[r].alert_pos = 1
    /\ Env(TRUE)
    /\ Set(r, Fail(run[r], "alert store failed"))
    /\ UNCHANGED << disk, meteorological_data, heatwave_alerts, remote >>

\* database.py 182-204: one INSERT of the alert batch
AlertRow(r) ==
    /\ run[r].pc = "alert_store"
    /\ LET batch_data == AlertBatch(run[r].day_alerts)
       IN IF run[r].alert_pos > Len(batch_data)
          THEN /\ UNCHANGED heatwave_alerts
               /\ Set(r, NextDay(run[r]))
          ELSE /\ heatwave_alerts' =
                     InsertAlertRow(heatwave_alerts, batch_data[run[r].alert_pos])
               /\ IF run[r].alert_pos = Len(batch_data)
                  THEN Set(r, NextDay([run[r] EXCEPT !.total_heatwave_alerts =
                                    run[r].total_heatwave_alerts + Len(batch_data)]))
                  ELSE Set(r, [run[r] EXCEPT !.alert_pos = run[r].alert_pos + 1])
    /\ UNCHANGED << disk, meteorological_data, remote, faults >>

\* database.py 205-207: an INSERT raises
AlertError(r) ==
    /\ run[r].pc = "alert_store"
    /\ run[r].alert_pos <= Len(AlertBatch(run[r].day_alerts))
    /\ Env(TRUE)
    /\ Set(r, NextDay(run[r]))
    /\ UNCHANGED << disk, meteorological_data, heatwave_alerts, remote >>

\* main.py 481-513 and database.py 232-253: retention cleanup, then the
\* summary.  A failed connection raises out of the pipeline; an error of a
\* delete_many is logged and ends the cleanup.
Cleanup(r) ==
    /\ run[r].pc = "cleanup"
    /\ \E outcome \in {"no connection", "met error", "alert error", "ok"} :
         /\ Env(outcome # "ok")
         /\ CASE outcome = "no connection" ->
                   /\ Set(r, Fail(run[r], "cleanup failed"))
                   /\ UNCHANGED << meteorological_data, heatwave_alerts >>
              [] outcome = "met error" ->
                   /\ Set(r, Succeed(run[r]))
                   /\ UNCHANGED << meteorological_data, heatwave_alerts >>
              [] outcome = "alert error" ->
                   /\ Set(r, Succeed(run[r]))
                   /\ meteorological_data' = CleanMet(meteorological_data)
                   /\ UNCHANGED heatwave_alerts
              [] outcome = "ok" ->
                   /\ Set(r, Succeed(run[r]))
                   /\ meteorological_data' = CleanMet(meteorological_data)
                   /\ heatwave_alerts' = CleanAlerts(heatwave_alerts)
    /\ UNCHANGED << disk, remote >>

\* the process is killed; a transfer in progress leaves what it has written
Interrupt(r) ==
    /\ run[r].pc \notin {"idle", "done", "interrupted"}
    /\ Set(r, [run[r] EXCEPT !.pc = "interrupted"])
    /\ IF run[r].pc = "fetch_get"
       THEN \E written \in {"nothing", "small", "big"} :
              disk' = IF written = "nothing" THEN disk
                      ELSE WriteFile(disk, Cur(r).filename, FALSE, written = "big")
       ELSE UNCHANGED disk
    /\ UNCHANGED << meteorological_data, heatwave_alerts, remote, faults >>

\* the steps of the program
Handlers(r) ==
    \/ Start(r)
    \/ DbTest(r)
    \/ Discover(r)
    \/ FetchCheck(r)
    \/ FetchGet(r)
    \/ FetchValidate(r)
    \/ Extract(r)
    \/ StoreRow(r)
    \/ Delete(r)
    \/ Summary(r)
    \/ DetectDay(r)
    \/ AlertRow(r)
    \/ Cleanup(r)

\* the steps in which the environment alone decides
Faults(r) ==
    \/ StoreConnectError(r)
    \/ StoreError(r)
    \/ AlertConnectError(r)
    \/ AlertError(r)

Step(r) == Handlers(r) \/ Faults(r) \/ Interrupt(r)

\* one invocation
Next == Step(1)

Spec == Init /\ [][Next]_vars

\* two invocations, the second one started after the first has ended or
\* was interrupted
NextSeq ==
    \/ Handlers(1)
    \/ Interrupt(1)
    \/ run[1].pc \in {"done", "interrupted"} /\ (Handlers(2) \/ Interrupt(2))

SpecSeq == InitSeq /\ [][NextSeq]_vars

\* two invocations, overlapping in any way
NextTwo == \E r \in Runs : Handlers(r)

SpecTwo == InitTwo /\ [][NextTwo]_vars

\* one invocation that is not killed: every call returns, with its result
\* or with an error, and the invocation takes its next step
NextLive == Handlers(1) \/ Faults(1)

SpecLive == Init /\ [][NextLive]_vars /\ WF_vars(NextLive)

\* ------------------------------------------------------------------------
\* Functions of the program applied on their own, to arguments drawn from
\* bounded sets; calc holds the arguments and the result
\* ------------------------------------------------------------------------
InitCalc ==
    /\ run = [r \in Runs |-> InitRun]
    /\ disk = {}
    /\ meteorological_data = EmptyBag
    /\ heatwave_alerts = EmptyBag
    /\ remote = [o \in 0..MaxHourOffset |-> "ok"]
    /\ faults = 0
    /\ calc = NoCalc

Frame == UNCHANGED << run, disk, meteorological_data, heatwave_alerts, remote, faults >>

\* the initializations the remote may hold and the dates asked for
ProbeInits == {get_forecast_init_time(d, c) : d \in 0..ProbeDaysBack, c \in BOOLEAN}
ProbeDates == {Today - 1, Today, Today + 1}

\* main.py 331-344: discovery for a target date given on the command line
ExplicitDiscovery ==
    /\ \E target_date \in ProbeDates, avail \in SUBSET ProbeInits :
         calc' = [op |-> "explicit",
                  avail |-> avail,
                  target_date |-> target_date,
                  forecast_time |-> FindForecastFor(target_date, avail)]
    /\ Frame

\* main.py 321-328: discovery without a target date
AutoDiscovery ==
    /\ \E avail \in SUBSET ProbeInits :
         LET forecast_result == find_latest_available_forecast(avail)
         IN calc' = [op |-> "auto",
                     avail |-> avail,
                     target_date |-> forecast_result.target_date,
                     forecast_time |-> forecast_result.forecast_time]
    /\ Frame

NextDiscovery == ExplicitDiscovery \/ AutoDiscovery

SpecDiscovery == InitCalc /\ [][NextDiscovery]_vars

\* main.py 348-358: the descriptor list of an initialization and a target
\* date
UrlInits == {get_forecast_init_time(d, c) : d \in 0..(max_days_back - 1), c \in BOOLEAN}
UrlDates == (Today - UrlDateSpan)..(Today + UrlDateSpan)

DescriptorList ==
    /\ \E forecast_time \in UrlInits, target_date \in UrlDates :
         calc' = [op |-> "urls",
                  forecast_time |-> forecast_time,
                  target_date |-> target_date,
                  all_urls |-> AllUrls(forecast_time, target_date)]
    /\ Frame

NextUrls == DescriptorList

SpecUrls == InitCalc /\ [][NextUrls]_vars

\* ------------------------------------------------------------------------
\* Daily detection on a table of samples (heatwave_calculator.py 124-313,
\* then insert_heatwave_alerts)
\* ------------------------------------------------------------------------
MaxSamples == 7
FullDay == 24

SampleCounts == ((MIN_HOURS - 2)..MaxSamples) \cup {FullDay}
SampleTemperatures == {2000, 3300, 4500}
SampleHumidities == {20, 50}
SampleLocations == {<< 30, -121 >>, << 40, -100 >>}

\* the k-th stored sample of a location on the day: the rows differ in
\* their (forecastHour, forecastInitTime) pair
Sample(loc, k, temperature, humidity) ==
    [latitude |-> loc[1],
     longitude |-> loc[2],
     forecast_hour |-> Today * HoursPerDay + ((k - 1) % HoursPerDay),
     forecast_init_time |-> Today * HoursPerDay - ((k - 1) \div HoursPerDay),
     temperature |-> temperature,
     humidity |-> humidity,
     wind_speed |-> 0,
     pressure |-> 101325]

Samples(loc, n, temperature, humidity) ==
    SetToBag({Sample(loc, k, temperature, humidity) : k \in 1..n})

\* database.py 182-204: the INSERTs of the alert batch, in order
RECURSIVE InsertAlertRows(_, _)
InsertAlertRows(table, batch_data) ==
    IF batch_data = << >> THEN table
    ELSE InsertAlertRows(InsertAlertRow(table, Head(batch_data)), Tail(batch_data))

\* One detection of the day on the samples of one location, and the write
\* of its alerts (main.py 452-469)
DetectSamples ==
    /\ \E loc \in SampleLocations, n \in SampleCounts,
          temperature \in SampleTemperatures, humidity \in SampleHumidities,
          forecast_init_time \in {Today * HoursPerDay} :
         LET table == Samples(loc, n, temperature, humidity)
             day_alerts == process_daily_heatwave_detection(table, Today,
                                                            forecast_init_time)
         IN /\ meteorological_data' = table
            /\ heatwave_alerts' = InsertAlertRows(heatwave_alerts, AlertBatch(day_alerts))
            /\ calc' = [op |-> "detect",
                        samples |-> n,
                        temperature |-> temperature,
                        humidity |-> humidity,
                        forecast_init_time |-> forecast_init_time,
                        analysis |-> analyze_location_heatwave(table, BagToSet(table)),
                        day_alerts |-> day_alerts]
    /\ UNCHANGED << run, disk, remote, faults >>

NextDetect == DetectSamples
SpecDetect == InitCalc /\ [][NextDetect]_vars

\* ------------------------------------------------------------------------
\* climate_data.py and temperature_thresholds.py: the regional and the
\* simple risk assessment (temperatures in hundredths of a degree)
\* ------------------------------------------------------------------------
CLIMATE_REGIONS ==
    << [region_id |-> "desert_southwest",
        bounds |-> << 32, 42, -125, -109 >>,
        temp_thresholds |-> [moderate_risk |-> 4000, high_risk |-> 4300, extreme_risk |-> 4600],
        heat_index_critical |-> FALSE,
        nighttime_cooling_threshold |-> 1500],
       [region_id |-> "great_plains",
        bounds |-> << 30, 49, -104, -90 >>,
        temp_thresholds |-> [moderate_risk |-> 3500, high_risk |-> 3800, extreme_risk |-> 4100],
        heat_index_critical |-> TRUE,
        nighttime_cooling_threshold |-> 1200],
       [region_id |-> "southeast_humid",
        bounds |-> << 25, 37, -95, -75 >>,
        temp_thresholds |-> [moderate_risk |-> 3200, high_risk |-> 3500, extreme_risk |-> 3800],
        heat_index_critical |-> TRUE,
        nighttime_cooling_threshold |-> 800],
       [region_id |-> "northeast_temperate",
        bounds |-> << 37, 47, -80, -65 >>,
        temp_thresholds |-> [moderate_risk |-> 3000, high_risk |-> 3300, extreme_risk |-> 3600],
        heat_index_critical |-> TRUE,
        nighttime_cooling_threshold |-> 1000],
       [region_id |-> "pacific_northwest",
        bounds |-> << 42, 50, -125, -110 >>,
        temp_thresholds |-> [moderate_risk |-> 2800, high_risk |-> 3200, extreme_risk |-> 3500],
        heat_index_critical |-> FALSE,
        nighttime_cooling_threshold |-> 1200] >>

DEFAULT_THRESHOLDS ==
    [region_id |-> "default",
     bounds |-> << >>,
     temp_thresholds |-> [moderate_risk |-> 3200, high_risk |-> 3500, extreme_risk |-> 3800],
     heat_index_critical |-> TRUE,
     nighttime_cooling_threshold |-> 1000]

\* the first region, in the order of the table, whose bounds hold the point
RECURSIVE RegionFrom(_, _, _)
RegionFrom(regions, latitude, longitude) ==
    IF regions = << >> THEN DEFAULT_THRESHOLDS
    ELSE LET region_data == Head(regions)
             lat_min == region_data.bounds[1]
             lat_max == region_data.bounds[2]
             lon_min == region_data.bounds[3]
             lon_max == region_data.bounds[4]
         IN IF lat_min <= latitude /\ latitude <= lat_max
               /\ lon_min <= longitude /\ longitude <= lon_max
            THEN region_data
            ELSE RegionFrom(Tail(regions), latitude, longitude)

get_climate_region(latitude, longitude) == RegionFrom(CLIMATE_REGIONS, latitude, longitude)

\* RiskLadder with the two upper steps exchanged
RiskLadderSwapped(assessment_temp, thresholds) ==
    IF assessment_temp >= thresholds.extreme_risk THEN 3
    ELSE IF assessment_temp >= thresholds.high_risk THEN 4
    ELSE IF assessment_temp >= thresholds.moderate_risk THEN 2
    ELSE IF assessment_temp >= thresholds.moderate_risk - 300 THEN 1
    ELSE 0

\* the if/elif ladder of both assess_heatwave_risk functions
RiskLadder(assessment_temp, thresholds) ==
    IF assessment_temp >= thresholds.extreme_risk THEN 4
    ELSE IF assessment_temp >= thresholds.high_risk THEN 3
    ELSE IF assessment_temp >= thresholds.moderate_risk THEN 2
    ELSE IF assessment_temp >= thresholds.moderate_risk - 300 THEN 1
    ELSE 0

Min(a, b) == IF a < b THEN a ELSE b

\* NorthAmericanHeatwaveThresholds.assess_heatwave_risk
assess_heatwave_risk(latitude, longitude, daily_max_temp, daily_min_temp, max_heat_index) ==
    LET region == get_climate_region(latitude, longitude)
        thresholds == region.temp_thresholds
        assessment_temp == IF region.heat_index_critical THEN max_heat_index
                           ELSE daily_max_temp
        base_level == RiskLadder(assessment_temp, thresholds)
        nighttime_cooling == daily_max_temp - daily_min_temp
        poor_cooling == nighttime_cooling < region.nighttime_cooling_threshold
    IN [risk_level |-> IF poor_cooling THEN Min(base_level + 1, 4) ELSE base_level,
        base_level |-> base_level,
        region |-> region.region_id,
        assessment_method |-> IF region.heat_index_critical THEN "heat_index"
                              ELSE "temperature",
        assessment_temp |-> assessment_temp,
        nighttime_cooling |-> nighttime_cooling,
        poor_cooling |-> poor_cooling]

MODERATE_RISK_TEMP == 3200
HIGH_RISK_TEMP == 3500
EXTREME_RISK_TEMP == 3800
MIN_NIGHTTIME_COOLING == 1000

\* SimpleHeatwaveThresholds.assess_heatwave_risk
simple_assess_heatwave_risk(daily_max_temp, daily_min_temp, max_heat_index, avg_humidity) ==
    LET use_heat_index == avg_humidity > 60
        assessment_temp == IF use_heat_index THEN max_heat_index ELSE daily_max_temp
        base_level == RiskLadder(assessment_temp,
                          [moderate_risk |-> MODERATE_RISK_TEMP,
                           high_risk |-> HIGH_RISK_TEMP,
                           extreme_risk |-> EXTREME_RISK_TEMP])
        nighttime_cooling == daily_max_temp - daily_min_temp
        poor_cooling == nighttime_cooling < MIN_NIGHTTIME_COOLING
    IN [risk_level |-> IF poor_cooling /\ base_level > 0 THEN Min(base_level + 1, 4)
                       ELSE base_level,
        base_level |-> base_level,
        assessment_method |-> IF use_heat_index THEN "heat_index" ELSE "temperature",
        assessment_temp |-> assessment_temp,
        nighttime_cooling |-> nighttime_cooling,
        poor_cooling |-> poor_cooling]

\* one point in each region of climate_data.py, and one in none
RiskLocations ==
    {<< 33, -112 >>, << 40, -100 >>, << 30, -85 >>, << 40, -70 >>,
     << 46, -120 >>, << 30, -107 >>}
RiskHeatIndices ==
    {2600, 3100, 3400, 3700, 4000, 4400} \cup {calculate_heat_index(4500, 20)}
RiskMaxTemperatures == {3000, 4500}
RiskCoolings == {0, 1500}
RiskHumidities == {20, 70}

\* The assessments of one location for two maximum heat indices h1 <= h2,
\* everything else equal: the calculator's alert level and the two risk assessments
AssessRisk ==
    /\ \E pair \in {p \in RiskHeatIndices \X RiskHeatIndices : p[1] <= p[2]},
          loc \in RiskLocations,
          daily_max_temp \in RiskMaxTemperatures, cooling \in RiskCoolings,
          avg_humidity \in RiskHumidities :
         LET h1 == pair[1]
             h2 == pair[2]
             daily_min_temp == daily_max_temp - cooling
             thresholds == get_regional_thresholds(loc[1], loc[2])
         IN calc' = [op |-> "risk",
                     latitude |-> loc[1],
                     longitude |-> loc[2],
                     daily_max_temp |-> daily_max_temp,
                     daily_min_temp |-> daily_min_temp,
                     avg_humidity |-> avg_humidity,
                     h1 |-> h1,
                     h2 |-> h2,
                     alert_level1 |-> BaseLevel(h1, thresholds),
                     alert_level2 |-> BaseLevel(h2, thresholds),
                     regional1 |-> assess_heatwave_risk(loc[1], loc[2], daily_max_temp,
                                                        daily_min_temp, h1),
                     regional2 |-> assess_heatwave_risk(loc[1], loc[2], daily_max_temp,
                                                        daily_min_temp, h2),
                     simple1 |-> simple_assess_heatwave_risk(daily_max_temp,
                                     daily_min_temp, h1, avg_humidity),
                     simple2 |-> simple_assess_heatwave_risk(daily_max_temp,
                                     daily_min_temp, h2, avg_humidity)]
    /\ Frame

NextRisk == AssessRisk
SpecRisk == InitCalc /\ [][NextRisk]_vars

\* ------------------------------------------------------------------------
\* calculate_heat_index on a grid of temperatures around the 80 F cut
\* ------------------------------------------------------------------------
HeatIndexTemperatures == {-500, 0, 2000} \cup (2600..2700) \cup {3000, 3500, 4500}
HeatIndexHumidities == {0, 20, 50, 80, 100}

HeatIndexOf ==
    /\ \E temp_c \in HeatIndexTemperatures, humidity \in HeatIndexHumidities :
         calc' = [op |-> "heat_index",
                  temp_c |-> temp_c,
                  humidity |-> humidity,
                  heat_index |-> calculate_heat_index(temp_c, humidity)]
    /\ Frame

NextHeatIndex == HeatIndexOf
SpecHeatIndex == InitCalc /\ [][NextHeatIndex]_vars

\* ------------------------------------------------------------------------
\* download_single_file on a download directory that may already hold a
\* file of the descriptor (smart_downloader.py 137-224)
\* ------------------------------------------------------------------------
FetchUrls == AllUrls(get_forecast_init_time(0, FALSE), Today)

\* the directories with at most one file per descriptor, of any validity
\* and size
FetchDisks ==
    {d \in SUBSET {[name |-> FetchUrls[k].filename, valid |-> v, big |-> b] :
                      k \in 1..Len(FetchUrls), v \in BOOLEAN, b \in BOOLEAN} :
        \A f \in d, g \in d : f.name = g.name => f = g}

InitFetch ==
    /\ run = [r \in Runs |->
                IF r = 1
                THEN [InitRun EXCEPT !.pc = "fetch_check",
                                     !.target_date = Today,
                                     !.forecast_time = get_forecast_init_time(0, FALSE),
                                     !.all_urls = FetchUrls,
                                     !.i = 1]
                ELSE InitRun]
    /\ disk \in FetchDisks
    /\ meteorological_data = EmptyBag
    /\ heatwave_alerts = EmptyBag
    /\ remote = [o \in 0..MaxHourOffset |-> "ok"]
    /\ faults = MaxFaults
    /\ calc = NoCalc

NextFetch == FetchCheck(1) \/ FetchGet(1) \/ FetchValidate(1)
SpecFetch == InitFetch /\ [][NextFetch]_vars

\* ------------------------------------------------------------------------
\* Nighttime cooling (heatwave_calculator.py 172-184), as a fraction
\* num / den of degrees; the records of a location come ordered by
\* forecastHour
\* ------------------------------------------------------------------------
RECURSIVE SeqSum(_)
SeqSum(s) == IF s = << >> THEN 0 ELSE Head(s) + SeqSum(Tail(s))

nighttime_cooling(temperatures) ==
    LET n == Len(temperatures)
        day_temps == IF n >= 18 THEN SubSeq(temperatures, 7, 18)
                     ELSE SubSeq(temperatures, 7, n)
        night_temps == IF n >= 18
                       THEN SubSeq(temperatures, 1, 6) \o SubSeq(temperatures, 19, n)
                       ELSE SubSeq(temperatures, 1, 6)
        max_temp == SetMax(SeqToSet(temperatures))
        min_temp == SetMin(SeqToSet(temperatures))
    IN IF n >= 12 /\ day_temps # << >> /\ night_temps # << >>
       THEN [num |-> SeqSum(day_temps) * Len(night_temps)
                     - SeqSum(night_temps) * Len(day_temps),
             den |-> Len(day_temps) * Len(night_temps)]
       ELSE [num |-> max_temp - min_temp, den |-> 1]

\* the samples of a location: one per hour of day, from first_hour on
CoolingFirstHours == {0, 4, 6, 12}
CoolingProfiles == {<< 35, 20 >>, << 30, 28 >>, << 25, 25 >>}

HourTemperature(hour, profile) == IF 6 <= hour /\ hour < 18 THEN profile[1] ELSE profile[2]

CoolingOf ==
    /\ \E first_hour \in CoolingFirstHours, profile \in CoolingProfiles :
         \E n \in MIN_HOURS..(FullDay - first_hour) :
            LET hours == [k \in 1..n |-> first_hour + k - 1]
                temperatures == [k \in 1..n |-> HourTemperature(hours[k], profile)]
            IN calc' = [op |-> "cooling",
                        hours |-> hours,
                        temperatures |-> temperatures,
                        nighttime_cooling |-> nighttime_cooling(temperatures)]
    /\ Frame

NextCooling == CoolingOf
SpecCooling == InitCalc /\ [][NextCooling]_vars

\* ------------------------------------------------------------------------
\* Detections of one date under one initialization while the samples of a
\* location keep arriving (main.py 386-412 and 452-469)
\* ------------------------------------------------------------------------
InitRedetect ==
    /\ run = [r \in Runs |-> InitRun]
    /\ disk = {}
    /\ meteorological_data \in
         {Samples(loc, n, temperature, humidity) :
             loc \in SampleLocations, n \in {MIN_HOURS - 1, MIN_HOURS},
             temperature \in SampleTemperatures, humidity \in SampleHumidities}
    /\ heatwave_alerts = EmptyBag
    /\ remote = [o \in 0..MaxHourOffset |-> "ok"]
    /\ faults = 0
    /\ calc = NoCalc

\* one more sample of the location is stored
IngestSample ==
    /\ BagCardinality(meteorological_data) < MaxSamples
    /\ \E temperature \in SampleTemperatures :
         LET first_record == CHOOSE row \in BagToSet(meteorological_data) : TRUE
             loc == << first_record.latitude, first_record.longitude >>
         IN meteorological_data' =
                InsertMetRow(meteorological_data,
                             Sample(loc, BagCardinality(meteorological_data) + 1,
                                    temperature, first_record.humidity))
    /\ calc' = NoCalc
    /\ UNCHANGED << run, disk, heatwave_alerts, remote, faults >>

\* the date is classified from the stored samples and its alerts are written
Redetect ==
    /\ \E forecast_init_time \in {Today * HoursPerDay} :
         LET day_alerts == process_daily_heatwave_detection(meteorological_data, Today,
                                                            forecast_init_time)
         IN /\ heatwave_alerts' = InsertAlertRows(heatwave_alerts, AlertBatch(day_alerts))
            /\ calc' = [op |-> "redetect",
                        forecast_init_time |-> forecast_init_time,
                        day_alerts |-> day_alerts]
    /\ UNCHANGED << run, disk, meteorological_data, remote, faults >>

NextRedetect == IngestSample \/ Redetect
SpecRedetect == InitRedetect /\ [][NextRedetect]_vars

\* ------------------------------------------------------------------------
\* Two overlapping invocations on one download directory, with the
\* transfer of download_single_file in its steps: the file is opened for
\* writing (smart_downloader.py 182), the chunks are written (183-187), the
\* file is closed and validated (199).  A file of the directory carries the
\* invocation that opened it last, and whether that open found a file at
\* the path (and so truncated the file another invocation may be writing).
\* ------------------------------------------------------------------------
ReplaceFile(d, f) == Unlink(d, f.name) \cup {f}

\* 172-182: the request succeeds and open(save_path, 'wb') creates the
\* file, or truncates the one at the path
FetchOpen(r) ==
    /\ run[r].pc = "fetch_get"
    /\ LET filename == Cur(r).filename
       IN disk' = ReplaceFile(disk, [name |-> filename,
                                     valid |-> FALSE,
                                     big |-> FALSE,
                                     writer |-> r,
                                     shared |-> Exists(disk, filename)])
    /\ Set(r, [run[r] EXCEPT !.pc = "fetch_stream"])
    /\ UNCHANGED << meteorological_data, heatwave_alerts, remote, faults >>

\* 183-187: the chunks are written.  The file at the path grows past the
\* size floor, or the last chunk is written and the file is closed.  When
\* the path was unlinked meanwhile the chunks go to the unlinked file and
\* the directory does not change; when the other invocation truncated the
\* file, the file at the path is complete or not, the other invocation's
\* progress decides.
FetchStream(r) ==
    /\ run[r].pc = "fetch_stream"
    /\ LET filename == Cur(r).filename
       IN \/ /\ Exists(disk, filename)
             /\ FileAt(disk, filename).writer = r
             /\ ~FileAt(disk, filename).big
             /\ disk' = ReplaceFile(disk, [FileAt(disk, filename) EXCEPT !.big = TRUE])
             /\ UNCHANGED << run, calc >>
          \/ /\ IF Exists(disk, filename) /\ FileAt(disk, filename).writer = r
                THEN disk' = ReplaceFile(disk, [FileAt(disk, filename) EXCEPT
                                                  !.valid = TRUE, !.big = TRUE])
                ELSE IF Exists(disk, filename) /\ FileAt(disk, filename).shared
                THEN \E valid \in {FileAt(disk, filename).valid, TRUE} :
                        disk' = ReplaceFile(disk, [FileAt(disk, filename) EXCEPT
                                                     !.valid = valid, !.big = TRUE])
                ELSE UNCHANGED disk
             /\ Set(r, [run[r] EXCEPT !.pc = "fetch_validate"])
    /\ UNCHANGED << meteorological_data, heatwave_alerts, remote, faults >>

\* both invocations are at the first of the same descriptors, on a store
\* that holds the rows of earlier days
InitShared ==
    /\ run = [r \in Runs |->
                [InitRun EXCEPT !.pc = "fetch_check",
                                !.target_date = Today,
                                !.forecast_time = get_forecast_init_time(0, FALSE),
                                !.all_urls = FetchUrls,
                                !.i = 1]]
    /\ disk = {}
    /\ meteorological_data = SetToBag(SeedRows)
    /\ heatwave_alerts = EmptyBag
    /\ remote \in Remotes
    /\ faults = 0
    /\ calc = NoCalc

SharedHandlers(r) ==
    \/ FetchCheck(r)
    \/ FetchOpen(r)
    \/ FetchStream(r)
    \/ FetchValidate(r)
    \/ Extract(r)
    \/ StoreRow(r)
    \/ Delete(r)
    \/ Summary(r)
    \/ DetectDay(r)
    \/ AlertRow(r)
    \/ Cleanup(r)

NextShared == \E r \in Runs : SharedHandlers(r)

SpecShared == InitShared /\ [][NextShared]_vars

\* ========================================================================
\* Properties
\* ========================================================================
LoopPcs == {"fetch_check", "fetch_get", "fetch_validate", "extract", "store", "delete"}
AfterLoopPcs == {"summary", "detect", "alert_store", "cleanup"}

InBox(latitude, longitude) ==
    25 <= latitude /\ latitude <= 50 /\ -125 <= longitude /\ longitude <= -65

\* the rows a complete ingest of the run's descriptors writes
ExpectedRows(r) ==
    {ToMetData(p) : p \in
        UNION {SeqToSet(process_hourly_file(u.filename, KindOf(u.filename))) :
                 u \in SeqToSet(run[r].all_urls)}}

\* the stored rows of the run's initialization, with their multiplicity
FileSetRows(table, r) ==
    LET rows == {row \in BagToSet(table) : row.forecast_init_time = run[r].forecast_time}
    IN [row \in rows |-> table[row]]

\* the run went through every descriptor and every store write reported
\* all its rows
Complete(r) ==
    /\ run[r].pc = "done"
    /\ run[r].success = "true"
    /\ run[r].files_processed = Len(run[r].all_urls)
    /\ run[r].inserted = Len(run[r].all_hourly_data)

\* C1: each descriptor goes through download, extract, store write and
\* delete in this order; the local file is deleted only after the store
\* write of its observations was issued (or when nothing was extracted);
\* the next descriptor starts only when the current one has been through
\* the delete step or has been counted as failed.
C1_SequentialOrder ==
    [][\A r \in Runs :
         LET a == run[r]
             b == run'[r]
         IN /\ (b.pc = "fetch_get" /\ a.pc # "fetch_get")
                  => a.pc \in {"fetch_check", "fetch_validate"} /\ b.i = a.i
            /\ (b.pc = "extract" /\ a.pc # "extract")
                  => a.pc \in {"fetch_check", "fetch_validate"} /\ b.i = a.i
            /\ (b.pc = "store" /\ a.pc # "store") => a.pc = "extract" /\ b.i = a.i
            /\ (b.pc = "delete" /\ a.pc # "delete")
                  => /\ b.i = a.i
                     /\ \/ a.pc = "store"
                        \/ a.pc = "extract" /\ b.hourly_data = << >>
            /\ (a.pc = "delete" /\ b.pc # "delete" /\ b.pc # "interrupted")
                  => \A f \in disk \ disk' : f.name = a.all_urls[a.i].filename
            /\ (a.pc \in LoopPcs /\ b.pc \in LoopPcs /\ b.i # a.i)
                  => /\ b.i = a.i + 1
                     /\ b.pc = "fetch_check"
                     /\ a.pc = "delete" \/ b.files_failed = a.files_failed + 1
       ]_vars

\* C1 as stated: the next descriptor starts only when the file of the
\* current one is gone or the descriptor was counted as failed.
C1_DeletedOrFailed ==
    [][\A r \in Runs :
         LET a == run[r]
             b == run'[r]
         IN (a.pc \in LoopPcs /\ b.pc \in LoopPcs /\ b.i # a.i)
               => \/ ~Exists(disk', a.all_urls[a.i].filename)
                  \/ b.files_failed = a.files_failed + 1
       ]_vars

C1_Witness ==
    /\ run[1].pc = "fetch_check"
    /\ run[1].i = 2
    /\ run[1].files_processed = 1
    /\ run[1].files_failed = 0
    /\ ~Exists(disk, run[1].all_urls[1].filename)
    /\ \E row \in BagToSet(meteorological_data) :
         row.forecast_init_time = run[1].forecast_time

\* the most observations one grid file yields
ObsPerFile == Len(process_hourly_file(FormatFilename(0, 0), "ok"))

\* C2: at every point of a run the observations the orchestrator holds in
\* memory are at most one file's worth, however many descriptors have been
\* processed.
C2_OneFileInMemory ==
    \A r \in Runs : Len(run[r].all_hourly_data) <= ObsPerFile

\* C3 as stated: a run fails as a whole only on discovery exhaustion or on
\* zero observations extracted.
C3_OnlyTwoFatal ==
    \A r \in Runs :
        run[r].success = "false"
            => run[r].message \in {"No available forecast",
                                   "No meteorological data extracted"}

\* C3, amended: no failure of a descriptor ends the loop (the loop is left
\* only after the last descriptor, every descriptor being attempted in
\* turn), and a run fails as a whole only in the connectivity test, in
\* discovery, on zero observations, or in the detection and cleanup phase.
C3_LoopNeverAborts ==
    [][\A r \in Runs :
         LET a == run[r]
             b == run'[r]
         IN /\ (a.pc \in LoopPcs /\ b.pc \notin LoopPcs /\ b.pc # "interrupted")
                  => b.pc = "summary" /\ a.i = Len(a.all_urls)
            /\ (a.pc \in LoopPcs /\ b.pc \in LoopPcs) => b.i \in {a.i, a.i + 1}
            /\ (b.success = "false" /\ a.success # "false")
                  => \/ a.pc \in {"db_test", "discover", "detect", "alert_store", "cleanup"}
                     \/ a.pc = "summary" /\ a.all_hourly_data = << >>
       ]_vars

C3_Witness ==
    /\ run[1].pc = "done"
    /\ run[1].success = "true"
    /\ run[1].files_failed > 0
    /\ run[1].files_processed > 0

\* C4: every descriptor adds exactly 1 to exactly one of files_processed
\* and files_failed, so that after the loop their sum is the number of
\* descriptors.
C4_CountersInv ==
    \A r \in Runs :
        LET sum == run[r].files_processed + run[r].files_failed
        IN /\ run[r].pc \in LoopPcs \ {"delete"} => sum = run[r].i - 1
           /\ run[r].pc = "delete" => sum = run[r].i
           /\ run[r].pc \in AfterLoopPcs \cup {"done"} => sum = Len(run[r].all_urls)

C4_OneCounterPerFile ==
    /\ []C4_CountersInv
    /\ [][\A r \in Runs :
            LET dp == run'[r].files_processed - run[r].files_processed
                df == run'[r].files_failed - run[r].files_failed
            IN dp \in {0, 1} /\ df \in {0, 1} /\ dp + df <= 1
         ]_vars

\* three failed attempts on the first descriptor, and the loop goes on
C4_Witness ==
    /\ run[1].pc = "fetch_check"
    /\ run[1].i = 2
    /\ run[1].files_failed = 1
    /\ run[1].files_processed = 0
    /\ faults = MaxFaults - max_retries

\* C5: one call of download_single_file makes at most 3 attempts; a failed
\* request and a failed validation use up one attempt each; a file that
\* fails validation is gone before the next attempt; the call returns True
\* at the first attempt whose file validates and False only when the third
\* attempt has failed.
C5_AttemptsInv ==
    \A r \in Runs :
        /\ run[r].attempt <= max_retries
        /\ run[r].pc \in {"fetch_get", "fetch_validate"} => run[r].attempt < max_retries

C5_ThreeAttempts ==
    /\ []C5_AttemptsInv
    /\ [][\A r \in Runs :
            LET a == run[r]
                b == run'[r]
                filename == a.all_urls[a.i].filename
                valid == Exists(disk, filename) /\ FileAt(disk, filename).valid
            IN /\ (a.pc = "fetch_get" /\ b.pc = "fetch_get") => b.attempt = a.attempt + 1
               /\ (a.pc = "fetch_validate" /\ b.pc = "fetch_get")
                     => b.attempt = a.attempt + 1 /\ ~Exists(disk', filename)
               /\ (a.pc = "fetch_validate" /\ valid) => b.pc \in {"extract", "interrupted"}
               /\ (a.pc = "fetch_validate" /\ b.pc = "extract") => valid
               /\ (a.pc \in {"fetch_get", "fetch_validate"}
                   /\ b.pc \in {"fetch_check", "summary"})
                     => a.attempt = max_retries - 1 /\ b.files_failed = a.files_failed + 1
         ]_vars

\* the third attempt is about to be made after a failed request and a
\* failed validation
C5_Witness ==
    /\ run[1].pc = "fetch_validate"
    /\ run[1].attempt = max_retries - 1
    /\ ~FileAt(disk, Cur(1).filename).valid

\* C6: once a run has ingested a file set completely, another run over the
\* same file set leaves the rows of that file set, and their count, as
\* they are: it adds no row.
C6_IdempotentReingest ==
    [][(Complete(1) /\ run[2].forecast_time \in {None, run[1].forecast_time})
          => FileSetRows(meteorological_data', 1) = FileSetRows(meteorological_data, 1)
      ]_vars

\* the second run has stored the same file set again
C6_Witness ==
    /\ Complete(1)
    /\ Complete(2)
    /\ run[2].forecast_time = run[1].forecast_time
    /\ run[2].target_date = run[1].target_date
    /\ Len(run[2].all_hourly_data) > ObsPerFile
    /\ BagToSet(FileSetRows(meteorological_data, 1)) = ExpectedRows(1)

\* C7: no step removes a stored observation that is within the retention
\* window, so what was stored before an interruption stays; a file left
\* incomplete by an interrupted transfer is removed and downloaded again;
\* and a complete run after an interrupted one ends with exactly the rows
\* of the file set, each once.
C7_ResumeInv ==
    (run[1].pc = "interrupted" /\ Complete(2))
        => /\ BagToSet(FileSetRows(meteorological_data, 2)) = ExpectedRows(2)
           /\ \A row \in ExpectedRows(2) : meteorological_data[row] = 1

C8_UniqueKeys ==
    /\ \A x, y \in BagToSet(meteorological_data) : MetKey(x) = MetKey(y) => x = y
    /\ \A x \in BagToSet(meteorological_data) : meteorological_data[x] = 1
    /\ \A x, y \in BagToSet(heatwave_alerts) : AlertKey(x) = AlertKey(y) => x = y
    /\ \A x \in BagToSet(heatwave_alerts) : heatwave_alerts[x] = 1

\* two overlapping runs have both written the observations of the same
\* file set and the alerts of the same day
C8_Witness ==
    /\ run[1].pc = "cleanup"
    /\ run[2].pc = "cleanup"
    /\ run[1].forecast_time = run[2].forecast_time
    /\ run[1].files_processed > 0 /\ run[2].files_processed > 0
    /\ run[1].total_heatwave_alerts > 0
    /\ run[2].total_heatwave_alerts > 0
    /\ run[1].day_alerts = run[2].day_alerts
    /\ heatwave_alerts # EmptyBag

\* C9: every observation the extractor produced and every row of the two
\* tables lies inside the coverage box 25..50 N, -125..-65 E.
C9_BoundingBox ==
    /\ \A r \in Runs :
         \A p \in SeqToSet(run[r].hourly_data) \cup SeqToSet(run[r].all_hourly_data) :
             InBox(p.latitude, p.longitude)
    /\ \A row \in BagToSet(meteorological_data) : InBox(row.latitude, row.longitude)
    /\ \A row \in BagToSet(heatwave_alerts) : InBox(row.latitude, row.longitude)

\* a file whose grid has cells outside the box has been extracted and
\* stored, and an alert has been written
C9_Witness ==
    /\ run[1].all_hourly_data # << >>
    /\ \E row \in BagToSet(meteorological_data) :
         row.forecast_init_time = run[1].forecast_time
    /\ heatwave_alerts # EmptyBag
    /\ \E i \in 1..Len(LatAxis), j \in 1..Len(LonAxis) :
         /\ (i - 1) % sample_rate = 0 /\ (j - 1) % sample_rate = 0
         /\ ~InBox(LatAxis[i], LonAxis[j])

\* C10: the exit code is 0 exactly when the run succeeded, else 1; when
\* discovery is exhausted no descriptor has been downloaded; with zero
\* observations extracted neither detection nor cleanup runs.
C10_ExitInv ==
    \A r \in Runs :
        /\ run[r].pc = "done"
              => /\ run[r].exit_code \in {0, 1}
                 /\ run[r].exit_code = 0 <=> run[r].success = "true"
        /\ run[r].pc # "done" => run[r].exit_code = None
        /\ run[r].message = "No available forecast"
              => run[r].pc = "done" /\ run[r].i = 0 /\ run[r].all_urls = << >>
        /\ run[r].pc \in {"detect", "alert_store", "cleanup"}
              => run[r].all_hourly_data # << >>
        /\ run[r].success = "true" => run[r].all_hourly_data # << >>

C10_ExitCode ==
    /\ []C10_ExitInv
    /\ [][\A r \in Runs :
            LET a == run[r]
                b == run'[r]
            IN /\ (a.pc = "discover" /\ b.pc = "done")
                     => b.exit_code = 1 /\ disk' = disk
               /\ (a.pc = "summary" /\ a.all_hourly_data = << >> /\ b.pc # "interrupted")
                     => /\ b.pc = "done" /\ b.exit_code = 1
                        /\ meteorological_data' = meteorological_data
                        /\ heatwave_alerts' = heatwave_alerts
         ]_vars

\* every descriptor was downloaded and none gave an observation
C10_Witness ==
    /\ run[1].pc = "done"
    /\ run[1].exit_code = 1
    /\ run[1].message = "No meteorological data extracted"
    /\ run[1].files_failed = Len(run[1].all_urls)
    /\ Len(run[1].all_urls) > 0

\* the candidate initializations for a target date: those of the last
\* max_days_back days that have a descriptor for the date
Candidates(target_date) ==
    {c \in {get_forecast_init_time(d, z) : d \in 0..(max_days_back - 1), z \in BOOLEAN} :
        generate_hourly_file_urls(c, target_date) # << >>}

\* C11: in explicit-date mode and in auto-detect mode alike, the selected
\* initialization is the latest candidate for the chosen target date whose
\* first-hour probe succeeds.
C11_LatestSelected ==
    (calc.op \in {"explicit", "auto"} /\ calc.forecast_time # None)
        => calc.forecast_time =
               SetMax({c \in Candidates(calc.target_date) : c \in calc.avail})

\* the same, in explicit-date mode only
C11_ExplicitLatest ==
    (calc.op = "explicit" /\ calc.forecast_time # None)
        => calc.forecast_time =
               SetMax({c \in Candidates(calc.target_date) : c \in calc.avail})

\* C12: the descriptor list of an initialization and a target date has at
\* most MaxHourOffset entries (120 of real hours); every entry has an hour
\* offset in 0..MaxHourOffset and a target time on one of the ForecastDays
\* dates from the target date on; and an hour of these dates has a
\* descriptor exactly when its offset is in 0..MaxHourOffset.
C12_DescriptorList ==
    calc.op = "urls" =>
        LET all_urls == calc.all_urls
            offsets == {all_urls[k].hour_offset : k \in 1..Len(all_urls)}
            hours == {d * HoursPerDay + h :
                         d \in calc.target_date..(calc.target_date + ForecastDays - 1),
                         h \in 0..(HoursPerDay - 1)}
        IN /\ Len(all_urls) <= MaxHourOffset
           /\ \A k \in 1..Len(all_urls) :
                /\ 0 <= all_urls[k].hour_offset
                /\ all_urls[k].hour_offset <= MaxHourOffset
                /\ calc.forecast_time + all_urls[k].hour_offset \in hours
                /\ all_urls[k].filename.targetDate
                      = DateOf(calc.forecast_time + all_urls[k].hour_offset)
           /\ \A k, m \in 1..Len(all_urls) :
                k < m => all_urls[k].hour_offset < all_urls[m].hour_offset
           /\ \A t \in hours :
                (t - calc.forecast_time) \in offsets
                    <=> (0 <= t - calc.forecast_time
                         /\ t - calc.forecast_time <= MaxHourOffset)

\* a list that lost the hours of the target date that lie before the
\* initialization
C12_Witness ==
    /\ calc.op = "urls"
    /\ calc.all_urls # << >>
    /\ Len(calc.all_urls) < ForecastDays * HoursPerDay
    /\ calc.forecast_time > calc.target_date * HoursPerDay

\* C13: the coverage gate.  A location with fewer than 6 stored samples for
\* the day gets no assessment and no alert; with 6 or more it gets exactly
\* one assessment, which becomes exactly one alert when its level is above
\* 0 and none when its level is 0.
C13_CoverageGate ==
    calc.op = "detect" =>
        /\ calc.samples < 6 => calc.analysis = << >> /\ calc.day_alerts = << >>
        /\ calc.samples >= 6 =>
             /\ Len(calc.analysis) = 1
             /\ calc.analysis[1].alert_level = 0 => calc.day_alerts = << >>
             /\ calc.analysis[1].alert_level > 0 =>
                  /\ Len(calc.day_alerts) = 1
                  /\ calc.day_alerts[1].alert_level = calc.analysis[1].alert_level

\* five hot samples of a location are dropped
C13_Witness ==
    /\ calc.op = "detect"
    /\ calc.temperature = 4500
    /\ calc.samples = MIN_HOURS - 1
    /\ calc.day_alerts = << >>

\* C14: no assessment of level 0 is returned by the per-day classification
\* or present in the alert table, after any sequence of detections and alert
\* inserts; 24 samples at 20 C / 50 % give a maximum heat index of 20 C,
\* level 0 and no returned assessment.
C14_NoLevelZero ==
    /\ \A alert \in BagToSet(heatwave_alerts) : alert.alert_level > 0
    /\ calc.op = "detect" =>
         /\ \A k \in 1..Len(calc.day_alerts) : calc.day_alerts[k].alert_level > 0
         /\ (calc.samples = 24 /\ calc.temperature = 2000 /\ calc.humidity = 50) =>
              /\ calc.analysis[1].max_heat_index = 2000
              /\ calc.analysis[1].alert_level = 0
              /\ calc.day_alerts = << >>
              /\ \A alert \in BagToSet(heatwave_alerts) : alert.max_heat_index # 2000

\* the 24 cool samples are classified after alerts of earlier detections
\* were stored
C14_Witness ==
    /\ calc.op = "detect"
    /\ calc.samples = 24 /\ calc.temperature = 2000 /\ calc.humidity = 50
    /\ calc.analysis # << >>
    /\ heatwave_alerts # EmptyBag

\* C15: the risk ladder is monotonic.  For a fixed location and a fixed
\* nighttime cooling that is at least the region's minimum, a larger maximum
\* heat index never gives a lower level, in the calculator and in the
\* regional assessment.
C15_MonotonicLadder ==
    (/\ calc.op = "risk"
     /\ calc.h1 <= calc.h2
     /\ ~calc.regional1.poor_cooling) =>
        /\ calc.alert_level1 <= calc.alert_level2
        /\ calc.regional1.risk_level <= calc.regional2.risk_level

\* a larger heat index moves a location of a heat-index region up the ladder
C15_Witness ==
    /\ calc.op = "risk"
    /\ calc.h1 < calc.h2
    /\ ~calc.regional1.poor_cooling
    /\ calc.regional1.assessment_method = "heat_index"
    /\ calc.regional1.risk_level < calc.regional2.risk_level
    /\ calc.alert_level1 < calc.alert_level2

\* C16: the final level of a location is the base level of a 3-step ladder,
\* raised by one step when the nighttime cooling is below the minimum and
\* capped at 3: the regional and the simple assessment give a level in
\* 0..3, and the calculator raises a level below 3 when the cooling is
\* below its 5 degree cut.
C16_EscalatedCappedAtThree ==
    calc.op = "risk" =>
        /\ calc.regional2.risk_level \in 0..3
        /\ calc.simple2.risk_level \in 0..3
        /\ calc.alert_level2 \in 0..3
        /\ (calc.daily_max_temp - calc.daily_min_temp < 500) =>
              calc.alert_level2 = Min(BaseLevel(calc.h2,
                  get_regional_thresholds(calc.latitude, calc.longitude)) + 1, 3)

\* C17 as stated: below 26.7 C the heat index equals the temperature, for
\* every humidity.
C17_DeadbandBelow267 ==
    (calc.op = "heat_index" /\ calc.temp_c < 2670) => calc.heat_index = calc.temp_c

\* C17: the deadband of the heat index ends at 80 F.  For every temperature
\* whose Fahrenheit value is below 80 (below 26 2/3 C) and every humidity the
\* heat index equals the temperature.
C17_DeadbandBelow80F ==
    (calc.op = "heat_index" /\ calc.temp_c * 9 + 16000 < 40000) =>
        calc.heat_index = calc.temp_c

\* 26.66 C at 80 % humidity is returned as it is
C17_Witness ==
    /\ calc.op = "heat_index"
    /\ calc.temp_c = 2666
    /\ calc.humidity = 80
    /\ calc.heat_index = 2666

\* C18: Scenario A.  A location of the desert region (temperature-based,
\* cutoffs 40/43/46 C) with 45 C and 20 % humidity is classified on its raw
\* temperature and gets base level 2, not 3.
C18_DesertScenario ==
    (/\ calc.op = "risk"
     /\ calc.latitude = 33 /\ calc.longitude = -112
     /\ calc.daily_max_temp = 4500
     /\ calc.h2 = calculate_heat_index(4500, 20)) =>
        /\ calc.regional2.region = "desert_southwest"
        /\ calc.regional2.assessment_method = "temperature"
        /\ calc.regional2.assessment_temp = 4500
        /\ calc.regional2.base_level = 2

\* C19: the observation count of the summary of a successful run
\* (meteorological_records, the length of all_hourly_data) equals the number
\* of observations its store writes wrote (the sum of their inserted
\* counts): the observations of a file whose store write failed are not
\* counted.
C19_ReportedEqualsStored ==
    \A r \in Runs :
        (run[r].pc = "done" /\ run[r].success = "true") =>
            Len(run[r].all_hourly_data) = run[r].inserted

\* C20: when a variable is missing from a downloaded, readable file, the
\* extraction fails as a whole: no observation of the file is emitted or
\* stored, the descriptor is counted as failed, and the loop goes on with
\* the next descriptor (or ends after the last one).
C20_MissingVariable ==
    [][\A r \in Runs :
         LET a == run[r]
             b == run'[r]
             filename == a.all_urls[a.i].filename
         IN (/\ a.pc = "extract"
             /\ b # a
             /\ b.pc # "interrupted"
             /\ Exists(disk, filename)
             /\ FileAt(disk, filename).valid
             /\ KindOf(filename) = "novar")
               => /\ b.files_failed = a.files_failed + 1
                  /\ b.files_processed = a.files_processed
                  /\ b.hourly_data = a.hourly_data
                  /\ b.all_hourly_data = a.all_hourly_data
                  /\ b.inserted = a.inserted
                  /\ meteorological_data' = meteorological_data
                  /\ IF a.i < Len(a.all_urls)
                     THEN b.pc = "fetch_check" /\ b.i = a.i + 1
                     ELSE b.pc = "summary"
       ]_vars

\* a run that met a file without its pressure variable went on, stored the
\* next file and succeeded; no observation of the bad file was kept
C20_Witness ==
    /\ run[1].pc = "done"
    /\ run[1].success = "true"
    /\ run[1].files_failed >= 1
    /\ \E k \in 1..Len(run[1].all_urls) :
         LET bad == run[1].all_urls[k].filename
             ts == extract_timestamp_from_filename(bad)
         IN /\ KindOf(bad) = "novar"
            /\ Exists(disk, bad)
            /\ FileAt(disk, bad).valid
            /\ \A d \in SeqToSet(run[1].all_hourly_data) :
                 d.timestamp # ts.data_timestamp
            /\ \E d \in SeqToSet(run[1].all_hourly_data) :
                 d.timestamp > ts.data_timestamp

\* the calendar dates of the observations the run extracted
ExtractedDates(rec) == {DateOf(d.timestamp) : d \in SeqToSet(rec.all_hourly_data)}

C22_ExistingFile ==
    [][\A r \in Runs :
         LET a == run[r]
             b == run'[r]
             filename == a.all_urls[a.i].filename
         IN (a.pc = "fetch_check" /\ b # a /\ Exists(disk, filename))
               => IF FileAt(disk, filename).big /\ FileAt(disk, filename).valid
                  THEN /\ b.pc = "extract"
                       /\ b.i = a.i
                       /\ b.attempt = 0
                       /\ disk' = disk
                  ELSE /\ b.pc = "fetch_get"
                       /\ b.i = a.i
                       /\ b.attempt = 0
                       /\ ~Exists(disk', filename)
                       /\ disk' = Unlink(disk, filename)
       ]_vars

\* the file of the first descriptor is gone before the first attempt, the
\* small valid file of the second descriptor is still there
C22_Witness ==
    /\ run[1].pc = "fetch_get"
    /\ run[1].i = 1
    /\ run[1].attempt = 0
    /\ faults = MaxFaults
    /\ ~Exists(disk, run[1].all_urls[1].filename)
    /\ Exists(disk, run[1].all_urls[2].filename)
    /\ FileAt(disk, run[1].all_urls[2].filename).valid
    /\ ~FileAt(disk, run[1].all_urls[2].filename).big

\* C25: whenever fetch returns true, a structurally valid file exists at
\* the descriptor's path at the moment of return, whatever its size.
C25_FileAtReturn ==
    \A r \in Runs :
        run[r].pc = "extract" =>
            /\ Exists(disk, run[r].all_urls[run[r].i].filename)
            /\ FileAt(disk, run[r].all_urls[run[r].i].filename).valid

\* the dates of the search window for which some candidate initialization
\* has a descriptor list and answers the probe of its first file
AutoInits == {get_forecast_init_time(d, z) : d \in 0..(INIT_DAYS_BACK - 1), z \in BOOLEAN}
DatesWithForecast(avail) ==
    {d \in (Today - SEARCH_DAYS + 1)..Today :
        \E c \in AutoInits : c \in avail /\ generate_hourly_file_urls(c, d) # << >>}

\* C23: without a target date the locator walks the dates backward from
\* today for up to 30 days and returns the latest of them for which a
\* candidate initialization answers the probe, with such an initialization;
\* when no date of the window has one, discovery fails.
C23_AutoDetectLatestDate ==
    calc.op = "auto" =>
        IF DatesWithForecast(calc.avail) = {}
        THEN calc.forecast_time = None /\ calc.target_date = None
        ELSE /\ calc.target_date = SetMax(DatesWithForecast(calc.avail))
             /\ calc.forecast_time \in calc.avail \cap AutoInits
             /\ generate_hourly_file_urls(calc.forecast_time, calc.target_date) # << >>

\* nothing is available for today, and an earlier date is returned
C23_Witness ==
    /\ calc.op = "auto"
    /\ calc.avail # {}
    /\ calc.target_date # None
    /\ calc.target_date < Today

\* C24: with at least 12 samples the nighttime cooling of a location is the
\* average temperature of its samples of the hours 6-18 minus the average of
\* its samples of the other hours, whichever hours its samples cover; with
\* fewer than 12 samples it is the maximum minus the minimum.
C24_CoolingByHourOfDay ==
    calc.op = "cooling" =>
        LET n == Len(calc.hours)
            day == {k \in 1..n : 6 <= calc.hours[k] /\ calc.hours[k] < 18}
            night == (1..n) \ day
            day_sum == SeqSum([k \in 1..n |-> IF k \in day THEN calc.temperatures[k] ELSE 0])
            night_sum == SeqSum([k \in 1..n |-> IF k \in night THEN calc.temperatures[k] ELSE 0])
            cooling == calc.nighttime_cooling
        IN IF n >= 12
           THEN (day # {} /\ night # {}) =>
                   cooling.num * (Cardinality(day) * Cardinality(night))
                      = (day_sum * Cardinality(night) - night_sum * Cardinality(day))
                           * cooling.den
           ELSE cooling.num = (SetMax(SeqToSet(calc.temperatures))
                                 - SetMin(SeqToSet(calc.temperatures))) * cooling.den

\* C26: after a detection for a date and an initialization, the alert row
\* stored for each alerted location carries the level and temperatures
\* computed in that detection, also when a row of the same location, date
\* and initialization had been stored by an earlier detection.
C26_FreshAlertStored ==
    calc.op = "redetect" =>
        \A k \in 1..Len(calc.day_alerts) :
            calc.day_alerts[k] \in BagToSet(heatwave_alerts)

\* the observations of the table stored under one initialization
OfInit(table, forecast_init_time) ==
    LET keep == {row \in BagToSet(table) : row.forecast_init_time = forecast_init_time}
    IN [row \in keep |-> table[row]]

\* C27: the assessment of a location and date under the initialization of
\* the run is computed only from the stored observations of that
\* initialization: the detection gives what it gives on those alone.
C27_SameInitOnly ==
    calc.op = "detect" =>
        calc.day_alerts =
            process_daily_heatwave_detection(
                OfInit(meteorological_data, calc.forecast_init_time),
                Today, calc.forecast_init_time)

\* ------------------------------------------------------------------------
\* C28: once the orchestrator has finished a descriptor, as processed or as
\* failed, no local file of that descriptor remains in the download
\* directory, provided no delete call failed (here: no environment fault
\* happened at all); so at most one downloaded grid file is on disk at any
\* time of the ingest loop.
C28_NoFileOfFinished ==
    \A r \in Runs :
      (faults = MaxFaults /\ run[r].pc \in LoopPcs \cup AfterLoopPcs)
         => /\ \A k \in 1..Len(run[r].all_urls) :
                 (k < run[r].i \/ run[r].pc \in AfterLoopPcs)
                    => ~Exists(disk, run[r].all_urls[k].filename)
            /\ Cardinality(disk) <= 1

\* the rows one run alone, without a fault, writes for descriptor u: those
\* of its file, when the file holds all its variables
RowsOfOneRun(u) ==
    IF "PS" \in Variables(KindOf(u.filename))
    THEN {ToMetData(p) : p \in SeqToSet(process_hourly_file(u.filename, KindOf(u.filename)))}
    ELSE {}

\* invocation r is through descriptor k
Past(r, k) == run[r].i > k \/ run[r].pc \in AfterLoopPcs \cup {"done"}

\* ------------------------------------------------------------------------
\* C29: when two runs execute concurrently over the same descriptors and
\* share the download directory, the file handling of one run never makes
\* a descriptor's observations end up absent from the store: once both
\* runs are through a descriptor, and so after both have finished, the
\* store holds the observations one run alone stores for it.
C29_SharedDirectory ==
    run[1].all_urls = run[2].all_urls
       => \A k \in 1..Len(run[1].all_urls) :
            (Past(1, k) /\ Past(2, k))
               => RowsOfOneRun(run[1].all_urls[k]) \subseteq BagToSet(meteorological_data)

\* ------------------------------------------------------------------------
\* C30: every run terminates when every network and store call returns:
\* the run ends, and with it the discovery and the handling of every
\* descriptor; the download of a descriptor takes at most 3 attempts; a
\* run that extracted an observation reaches the detection phase before
\* it returns.
C30_Terminates ==
    /\ <>(run[1].pc = "done")
    /\ [](run[1].attempt <= max_retries)
    /\ (run[1].pc \in LoopPcs /\ run[1].all_hourly_data # << >>)
          ~> (run[1].pc = "detect")

\* a run that had extracted the observations of a descriptor, and whose
\* last descriptor used up its 3 attempts, has been through the detection
\* of its dates and ended
C30_Witness ==
    /\ run[1].pc = "done"
    /\ run[1].attempt = max_retries
    /\ run[1].files_failed = 1
    /\ run[1].all_hourly_data # << >>
    /\ run[1].day = Len(run[1].processed_dates)
    /\ run[1].day > 0

====
